---- MODULE Spec2Model ----
(***************************************************************************)
(* A model of the voice-assistant front end: the CircularBuffer over a     *)
(* VecDeque (circular_buffer.rs), the capture callback and the poll loop   *)
(* with its SpeakingState machine and finalization handoff (main.rs), and  *)
(* the chat session (chat.rs).                                             *)
(*                                                                         *)
(* Time.  An Instant is held as its age: the milliseconds elapsed since it *)
(* was read.  Instant::now() has age 0, `Instant::now() - x` is the age of *)
(* x, and `Instant::now() - Duration::from_millis(k)` has age k.  One tick *)
(* of the poll loop ages every held Instant by the tick's delay, up to the *)
(* first clock read of its match arm.  Every further Instant::now() of the *)
(* same arm is a read of its own, no earlier than the one before it and at *)
(* most MaxSkew later than the first.                                      *)
(*                                                                         *)
(* Audio.  The program runs at 16000 samples per second with frames of 160 *)
(* and 480 samples and a buffer of 240000; the model keeps the order       *)
(* vad_frame_length < rustpotter_frame_length < buffer_capacity with small *)
(* numbers.  A sample is an integer: frame number f of the device on the   *)
(* first channel is f, on another channel it is -f, and 0 is silence.      *)
(*                                                                         *)
(* Spec is the whole program on a mono device that hands one frame to each *)
(* callback; LiveSpec is Spec with the scheduling of the poll task;        *)
(* ApiSpec is the CircularBuffer type under any caller; OverwriteSpec is a *)
(* caller that only overwrites; StreamSpec is the capture callback on any  *)
(* device.  written and api_result are history variables: what a caller    *)
(* passed in and got back.                                                 *)
(***************************************************************************)
EXTENDS Integers, Sequences, FiniteSets, TLC

\* ------------------------------------------------------------------ bounds
sample_rate == 1
vad_frame_length == 1
rustpotter_frame_length == 2
buffer_capacity == 5
MaxAge == 4000
MaxUtterances == 2
MaxChannels == 2
MaxChunkFrames == 2
SampleIds == 6
MaxApiCapacity == 3
MaxApiLen == 5
MaxSkew == 1
MaxWritten == 7
MaxLiveUtterances == 1

\* ------------------------------------------------------- program constants
POLL_SLEEP == 10
END_SILENCE == 800
MIN_UTTERANCE == 1500
DETECTION_LATENCY == 2000

\* Delays between two ticks of the poll loop: the 10 ms sleep plus whatever
\* the scheduler and the previous iteration add.
TickDelays == {699, 800, 801}

\* The time from the first read of the clock in a match arm to a later read
\* in the same arm.
ClockSkews == 0..MaxSkew

\* the usage.total_tokens a completion reports
TokensUsed == {2}

Min(a, b) == IF a < b THEN a ELSE b

\* usize::saturating_sub
saturating_sub(a, b) == IF a > b THEN a - b ELSE 0

\* slice[from..] with a 0-based start
SliceFrom(s, from) == SubSeq(s, from + 1, Len(s))

VARIABLES
    audio_buffer,      \* CircularBuffer<f32>: [deque: VecDeque, cap]
    lock,              \* holder of the Mutex around audio_buffer
    channel_count,     \* config.channels
    chunk_frames,      \* the most frames the device hands to one callback
    next_frame,        \* the device's next frame number
    stream_data,       \* the data slice of the running capture callback
    stream_i,          \* the index the callback's iterator stands at
    pc,                \* where the poll task stands
    speaking,          \* SpeakingState: "Silent", "Speaking", "Pending"
    end,               \* the Instant of Pending { end }, and its binding
    speaking_start,
    detection_start,
    vad_buffer,
    voice_segment,
    rustpotter_buffer,
    detection,         \* whether the last process_f32 call returned Some
    speaking_duration,
    speaking_slice,    \* the slice handed to whisper_state.full
    stt_calls,         \* calls of whisper_state.full so far
    chat,              \* Chat: [messages, tokens]
    failure,           \* what ended the process, "none" while it runs
    written,           \* history: the elements a caller handed to overwrite
    api_result         \* history: the last CircularBuffer call of a caller,
                       \* [call, value, result]

vars == <<audio_buffer, lock, channel_count, chunk_frames, next_frame, stream_data, stream_i,
          pc, speaking, end, speaking_start, detection_start, vad_buffer,
          voice_segment, rustpotter_buffer, detection, speaking_duration,
          speaking_slice, stt_calls, chat, failure, written, api_result>>

\* ------------------------------------------------ VecDeque (Rust std)
\* elems is the content oldest first; head is the physical index of the
\* first element and cap the physical capacity of the ring.
VecDeque_new == [elems |-> <<>>, head |-> 0, cap |-> 0]

\* RawVec::grow_one followed by VecDeque::handle_capacity_increase
VecDeque_grow(d) ==
    LET old_cap == d.cap
        new_cap == IF old_cap = 0 THEN 4 ELSE 2 * old_cap
        len == Len(d.elems)
        head_len == old_cap - d.head
        tail_len == len - head_len
    IN  IF d.head + len <= old_cap
        THEN [d EXCEPT !.cap = new_cap]
        ELSE IF head_len > tail_len /\ new_cap - old_cap >= tail_len
             THEN [d EXCEPT !.cap = new_cap]
             ELSE [d EXCEPT !.cap = new_cap, !.head = new_cap - head_len]

VecDeque_push_back(d, element) ==
    LET g == IF Len(d.elems) = d.cap THEN VecDeque_grow(d) ELSE d
    IN  [g EXCEPT !.elems = Append(@, element)]

VecDeque_pop_front(d) ==
    IF d.elems = <<>>
    THEN d
    ELSE [d EXCEPT !.elems = Tail(@),
                   !.head = IF d.head + 1 >= d.cap THEN d.head + 1 - d.cap
                                                   ELSE d.head + 1]

\* The two contiguous segments of the ring, oldest first.
VecDeque_as_slices(d) ==
    LET len == Len(d.elems)
        head_len == d.cap - d.head
    IN  IF len = 0 THEN << <<>>, <<>> >>
        ELSE IF head_len >= len THEN << d.elems, <<>> >>
        ELSE << SubSeq(d.elems, 1, head_len), SubSeq(d.elems, head_len + 1, len) >>

VecDeque_make_contiguous(d) ==
    LET len == Len(d.elems)
        free == d.cap - len
        head_len == d.cap - d.head
        tail_len == len - head_len
    IN  IF head_len >= len THEN d
        ELSE IF free >= head_len THEN [d EXCEPT !.head = 0]
        ELSE IF free >= tail_len THEN [d EXCEPT !.head = tail_len]
        ELSE IF head_len > tail_len THEN [d EXCEPT !.head = free]
        ELSE [d EXCEPT !.head = 0]

\* ------------------------------------------------ CircularBuffer
CircularBuffer_new(capacity) == [deque |-> VecDeque_new, cap |-> capacity]

CircularBuffer_len(b) == Len(b.deque.elems)

CircularBuffer_write_Evicting(b, element) ==
    [buffer |-> [b EXCEPT !.deque =
                    VecDeque_push_back(IF CircularBuffer_len(b) = b.cap
                                       THEN VecDeque_pop_front(b.deque)
                                       ELSE b.deque, element)],
     result |-> "Ok"]

\* write: [buffer, result]
CircularBuffer_write(b, element) ==
    IF CircularBuffer_len(b) = b.cap
    THEN [buffer |-> b, result |-> "Full"]
    ELSE [buffer |-> [b EXCEPT !.deque = VecDeque_push_back(@, element)],
          result |-> "Ok"]

CircularBuffer_overwrite_EvictNewest(b, element) ==
    LET kept == IF CircularBuffer_len(b) = b.cap /\ b.deque.elems # <<>>
                THEN [b.deque EXCEPT !.elems = SubSeq(@, 1, Len(@) - 1)]
                ELSE b.deque
    IN  [b EXCEPT !.deque = VecDeque_push_back(kept, element)]

CircularBuffer_overwrite(b, element) ==
    LET popped == IF CircularBuffer_len(b) = b.cap
                  THEN VecDeque_pop_front(b.deque) ELSE b.deque
    IN  [b EXCEPT !.deque = VecDeque_push_back(popped, element)]

\* read: [buffer, result], result the element read or "Empty"
CircularBuffer_read(b) ==
    IF b.deque.elems = <<>>
    THEN [buffer |-> b, result |-> "Empty"]
    ELSE [buffer |-> [b EXCEPT !.deque = VecDeque_pop_front(@)],
          result |-> Head(b.deque.elems)]

CircularBuffer_as_slices(b) == VecDeque_as_slices(b.deque)

CircularBuffer_make_contiguous(b) ==
    [b EXCEPT !.deque = VecDeque_make_contiguous(@)]

CircularBuffer_clear(b) == [b EXCEPT !.deque = VecDeque_new]

\* ------------------------------------------------ Chat
Chat_new == [messages |-> <<>>, tokens |-> 0]

Chat_push(c, role) == [c EXCEPT !.messages = Append(@, role)]

\* main, lines 34-62: the system prompt and three example turns
InitialChat ==
    Chat_push(Chat_push(Chat_push(Chat_push(Chat_new,
        "system"), "assistant"), "user"), "assistant")

\* ------------------------------------------------ initial state
\* A call of the CircularBuffer: the method, the element passed in or taken
\* out (0 if none) and the result.
ApiCall(call, value, result) == [call |-> call, value |-> value, result |-> result]

InitCommon ==
    /\ lock = "none"
    /\ next_frame = 1
    /\ stream_data = <<>>
    /\ stream_i = 0
    /\ pc = "sleep"
    /\ speaking = "Silent"
    /\ end = 0
    /\ speaking_start = 0
    /\ detection_start = 0
    /\ vad_buffer = [i \in 1..vad_frame_length |-> 0]
    /\ voice_segment = FALSE
    /\ rustpotter_buffer = [i \in 1..rustpotter_frame_length |-> 0]
    /\ detection = FALSE
    /\ speaking_duration = 0
    /\ speaking_slice = <<>>
    /\ stt_calls = 0
    /\ chat = InitialChat
    /\ failure = "none"
    /\ written = <<>>
    /\ api_result = ApiCall("none", 0, "none")

Init ==
    /\ audio_buffer = CircularBuffer_new(buffer_capacity)
    /\ channel_count = 1
    /\ chunk_frames = 1
    /\ InitCommon

\* ------------------------------------------------ the CircularBuffer API
\* Any caller of the CircularBuffer type: any capacity new accepts, any
\* sequence of calls.
ProgramVars == <<lock, channel_count, chunk_frames, next_frame, stream_data, stream_i,
                 pc, speaking, end, speaking_start, detection_start, vad_buffer,
                 voice_segment, rustpotter_buffer, detection, speaking_duration,
                 speaking_slice, stt_calls, chat, failure>>

ApiVars == <<ProgramVars, written>>

ApiInit ==
    /\ \E capacity \in 0..MaxApiCapacity :
          audio_buffer = CircularBuffer_new(capacity)
    /\ channel_count = 1
    /\ chunk_frames = 1
    /\ InitCommon

ApiElements == 1..2

ApiWrite ==
    /\ CircularBuffer_len(audio_buffer) < MaxApiLen
    /\ \E e \in ApiElements :
          /\ audio_buffer' = CircularBuffer_write(audio_buffer, e).buffer
          /\ api_result' = ApiCall("write", e, CircularBuffer_write(audio_buffer, e).result)
    /\ UNCHANGED ApiVars

ApiOverwrite ==
    /\ CircularBuffer_len(audio_buffer) < MaxApiLen
    /\ \E e \in ApiElements :
          /\ audio_buffer' = CircularBuffer_overwrite(audio_buffer, e)
          /\ api_result' = ApiCall("overwrite", e, "unit")
    /\ UNCHANGED ApiVars

ApiRead ==
    /\ audio_buffer' = CircularBuffer_read(audio_buffer).buffer
    /\ api_result' = IF CircularBuffer_len(audio_buffer) = 0
                      THEN ApiCall("read", 0, CircularBuffer_read(audio_buffer).result)
                      ELSE ApiCall("read", CircularBuffer_read(audio_buffer).result, "Ok")
    /\ UNCHANGED ApiVars

ApiMakeContiguous ==
    /\ audio_buffer' = CircularBuffer_make_contiguous(audio_buffer)
    /\ api_result' = ApiCall("make_contiguous", 0, "unit")
    /\ UNCHANGED ApiVars

ApiClear ==
    /\ audio_buffer' = CircularBuffer_clear(audio_buffer)
    /\ api_result' = ApiCall("clear", 0, "unit")
    /\ UNCHANGED ApiVars

ApiNext == ApiWrite \/ ApiOverwrite \/ ApiRead \/ ApiMakeContiguous \/ ApiClear

ApiSpec == ApiInit /\ [][ApiNext]_vars

\* A caller that takes a new buffer of capacity 1 or more and only calls
\* overwrite; written is what it has passed in.
OverwriteInit ==
    /\ \E capacity \in 1..MaxApiCapacity :
          audio_buffer = CircularBuffer_new(capacity)
    /\ channel_count = 1
    /\ chunk_frames = 1
    /\ InitCommon

OverwriteCall ==
    /\ Len(written) < MaxWritten
    /\ \E e \in ApiElements :
          /\ audio_buffer' = CircularBuffer_overwrite(audio_buffer, e)
          /\ written' = Append(written, e)
          /\ api_result' = ApiCall("overwrite", e, "unit")
    /\ UNCHANGED ProgramVars

OverwriteNext == OverwriteCall

OverwriteSpec == OverwriteInit /\ [][OverwriteNext]_vars

\* ------------------------------------------------ frame extraction
ExtractFrame_FromFront(frame_length, slices) ==
    LET left_len == saturating_sub(frame_length, Len(slices[2]))
        right_len == frame_length - left_len
        right_src == SliceFrom(slices[2], saturating_sub(Len(slices[2]), right_len))
        left_src == SubSeq(slices[1], 1, Min(left_len, Len(slices[1])))
    IN  [panic |-> Len(right_src) # right_len \/ Len(left_src) # left_len,
         frame |-> left_src \o right_src]

\* main, lines 137-139 and 148-150: the last frame_length samples of the two
\* slices, copied into a buffer of frame_length.  copy_from_slice panics
\* when the lengths differ.
ExtractFrame(frame_length, slices) ==
    LET left_len == saturating_sub(frame_length, Len(slices[2]))
        right_len == frame_length - left_len
        right_src == SliceFrom(slices[2], saturating_sub(Len(slices[2]), right_len))
        left_src == SliceFrom(slices[1], saturating_sub(Len(slices[1]), left_len))
    IN  [panic |-> Len(right_src) # right_len \/ Len(left_src) # left_len,
         frame |-> left_src \o right_src]

TickGuard_VadOnly(b) == CircularBuffer_len(b) > vad_frame_length

\* main, line 135
TickGuard(b) ==
    /\ CircularBuffer_len(b) > vad_frame_length
    /\ CircularBuffer_len(b) > rustpotter_frame_length

\* ------------------------------------------------ time
Age_ClockStopped(a, d, max) == Min(a, max)

\* the age, d later, of an Instant of age a; max stands for max and more
Age(a, d, max) == Min(a + d, max)

ShouldFinalize_AtThreshold(since_end, since_detection) ==
    /\ since_end >= END_SILENCE
    /\ since_detection > MIN_UTTERANCE

ShouldFinalize_NoMinimum(since_end, since_detection) ==
    /\ since_end > END_SILENCE
    /\ since_detection >= 0

\* main, line 168
ShouldFinalize(since_end, since_detection) ==
    /\ since_end > END_SILENCE
    /\ since_detection > MIN_UTTERANCE

\* main, line 174: (speaking_duration.as_secs_f32() * sample_rate).ceil()
DurationSamples(duration) == (duration * sample_rate + 999) \div 1000

SpeakingSlice_NotContiguous(b, duration) ==
    SliceFrom(CircularBuffer_as_slices(b)[1],
              saturating_sub(CircularBuffer_len(b), DurationSamples(duration)))

\* main, lines 178-179
SpeakingSlice(b, duration) ==
    LET c == CircularBuffer_make_contiguous(b)
    IN  SliceFrom(CircularBuffer_as_slices(c)[1],
                  saturating_sub(CircularBuffer_len(c), DurationSamples(duration)))

\* ------------------------------------------------ the capture callback
\* The interleaved data of `frames` frames starting at frame number `first`.
StreamData(first, frames, channels) ==
    [k \in 1..(frames * channels) |->
        LET i == k - 1
            id == ((first - 1 + (i \div channels)) % SampleIds) + 1
        IN  IF i % channels = 0 THEN id ELSE 0 - id]

KeptIndex_All(i) == i >= 0

\* main, line 115: the indices the filter lets through
KeptIndex(i) == i % channel_count = 0

StreamCallback ==
    /\ failure = "none"
    /\ stream_data = <<>>
    /\ \E frames \in 1..chunk_frames :
          /\ stream_data' = StreamData(next_frame, frames, channel_count)
          /\ next_frame' = ((next_frame - 1 + frames) % SampleIds) + 1
    /\ stream_i' = 0
    /\ UNCHANGED <<audio_buffer, lock, channel_count, chunk_frames, pc, speaking, end,
                   speaking_start, detection_start, vad_buffer, voice_segment,
                   rustpotter_buffer, detection, speaking_duration,
                   speaking_slice, stt_calls, chat, failure, written, api_result>>

\* main, lines 116-118: one sample of the first channel, under the lock
StreamOverwrite ==
    /\ failure = "none"
    /\ stream_data # <<>>
    /\ lock = "none"
    /\ audio_buffer' = CircularBuffer_overwrite(audio_buffer, stream_data[stream_i + 1])
    /\ LET rest == {j \in (stream_i + 1)..(Len(stream_data) - 1) : KeptIndex(j)}
       IN  IF rest = {}
           THEN stream_data' = <<>> /\ stream_i' = 0
           ELSE /\ stream_i' = CHOOSE j \in rest : \A k \in rest : j <= k
                /\ UNCHANGED stream_data
    /\ UNCHANGED <<lock, channel_count, chunk_frames, next_frame, pc, speaking, end,
                   speaking_start, detection_start, vad_buffer, voice_segment,
                   rustpotter_buffer, detection, speaking_duration,
                   speaking_slice, stt_calls, chat, failure, written, api_result>>

\* ------------------------------------------------ the poll loop
StreamVars == <<channel_count, chunk_frames, next_frame, stream_data, stream_i>>
Instants == <<speaking_start, detection_start>>
\* the history of the CircularBuffer calls of an outside caller
ApiTrace == <<written, api_result>>
\* the locals of one iteration; vad_buffer lives outside the loop but is
\* written whole before every use, so that what it holds between two
\* iterations is never read
Locals == <<vad_buffer, voice_segment, rustpotter_buffer>>
\* the locals of the finalization block
Handoff == <<speaking_duration, speaking_slice>>

\* The end of one iteration of the loop: the guard on the buffer and the
\* iteration's locals are dropped.
EndIteration ==
    /\ pc' = "sleep"
    /\ lock' = "none"
    /\ vad_buffer' = [i \in 1..vad_frame_length |-> 0]
    /\ voice_segment' = FALSE
    /\ rustpotter_buffer' = [i \in 1..rustpotter_frame_length |-> 0]
    /\ UNCHANGED failure

\* A panic, or main returning Err: the process ends.
Die(cause) ==
    /\ pc' = "dead"
    /\ failure' = cause
    /\ lock' = "none"
    /\ UNCHANGED Locals

\* main, lines 132-139: the sleep, the lock, the guard, the VAD frame
PollTick ==
    /\ pc = "sleep"
    /\ lock = "none"
    /\ \E d \in TickDelays :
          /\ d >= POLL_SLEEP
          /\ speaking_start' = Age(speaking_start, d, MaxAge + DETECTION_LATENCY)
          /\ detection_start' = Age(detection_start, d, MaxAge)
          /\ end' = IF speaking = "Pending" THEN Age(end, d, MaxAge) ELSE end
    /\ IF TickGuard(audio_buffer)
       THEN LET f == ExtractFrame(vad_frame_length, CircularBuffer_as_slices(audio_buffer))
            IN  IF f.panic
                THEN Die("copy_from_slice")
                ELSE /\ vad_buffer' = f.frame
                     /\ pc' = "vad"
                     /\ lock' = "poll"
                     /\ UNCHANGED <<voice_segment, rustpotter_buffer, failure>>
       ELSE UNCHANGED <<pc, lock, failure>> /\ UNCHANGED Locals
    /\ UNCHANGED <<audio_buffer, speaking, detection, stt_calls, chat>>
    /\ UNCHANGED <<Handoff, StreamVars, ApiTrace>>

\* main, line 142: the voice activity classifier returns
PollVad ==
    /\ pc = "vad"
    /\ \E voice \in BOOLEAN : voice_segment' = voice
    /\ pc' = "match"
    /\ UNCHANGED <<audio_buffer, lock, speaking, end, vad_buffer, rustpotter_buffer,
                   detection, stt_calls, chat, failure>>
    /\ UNCHANGED <<Instants, Handoff, StreamVars, ApiTrace>>

WakewordArm_AnyState == speaking \in {"Silent", "Speaking", "Pending"}

\* main, line 145: the arm of the match that scans for the wake word
WakewordArm == speaking = "Silent"

\* main, lines 145-151: the Silent arm up to the wake-word call
PollSilent ==
    /\ pc = "match"
    /\ WakewordArm
    /\ LET f == ExtractFrame(rustpotter_frame_length, CircularBuffer_as_slices(audio_buffer))
       IN  IF f.panic
           THEN Die("copy_from_slice")
           ELSE /\ rustpotter_buffer' = f.frame
                /\ pc' = "rustpotter"
                /\ UNCHANGED <<lock, failure, vad_buffer, voice_segment>>
    /\ UNCHANGED <<audio_buffer, speaking, end, detection, stt_calls, chat>>
    /\ UNCHANGED <<Instants, Handoff, StreamVars, ApiTrace>>

OnDetection_NoLatency ==
    /\ speaking' = "Speaking"
    /\ speaking_start' = 0
    /\ detection_start' = 0

\* main, lines 155-156: speaking_start is 2000 ms before one read of the
\* clock, detection_start is the next read
OnDetection ==
    /\ speaking' = "Speaking"
    /\ \E skew \in ClockSkews : speaking_start' = DETECTION_LATENCY + skew
    /\ detection_start' = 0

\* main, lines 152-157: the wake-word detector returns
PollRustpotter ==
    /\ pc = "rustpotter"
    /\ \E some \in BOOLEAN :
          /\ some => stt_calls < MaxUtterances
          /\ detection' = some
          /\ IF some THEN OnDetection ELSE UNCHANGED <<speaking, Instants>>
    /\ EndIteration
    /\ UNCHANGED <<audio_buffer, end, stt_calls, chat>>
    /\ UNCHANGED <<Handoff, StreamVars, ApiTrace>>

\* main, lines 159-163
PollSpeaking ==
    /\ pc = "match"
    /\ speaking = "Speaking"
    /\ IF ~voice_segment
       THEN speaking' = "Pending" /\ end' = 0
       ELSE UNCHANGED <<speaking, end>>
    /\ EndIteration
    /\ UNCHANGED <<audio_buffer, detection, stt_calls, chat>>
    /\ UNCHANGED <<Instants, Handoff, StreamVars, ApiTrace>>

\* main, lines 169-185: the utterance is finalized, up to the call of
\* whisper_state.full; `elapsed` is the time from the arm's first read of
\* the clock to the read of line 168 before, and line 173 reads it once more
Finalize(elapsed) ==
    /\ speaking' = "Silent"
    /\ \E skew \in elapsed..MaxSkew :
          /\ speaking_duration' = speaking_start + skew
          /\ speaking_slice' = SpeakingSlice(audio_buffer, speaking_start + skew)
    /\ audio_buffer' = CircularBuffer_make_contiguous(audio_buffer)
    /\ stt_calls' = stt_calls + 1
    /\ pc' = "whisper"
    /\ UNCHANGED <<lock, end, failure>>
    /\ UNCHANGED Locals

Reentry_TimerKept == UNCHANGED <<speaking, end>>

Reentry_Cancel ==
    /\ speaking' = "Silent"
    /\ end' = 0

\* main, lines 165-166: Pending { end } is replaced by Speaking
Reentry ==
    /\ speaking' = "Speaking"
    /\ end' = 0

\* main, lines 164-168: the two tests of line 168 read the clock one after
\* the other
PollPending ==
    /\ pc = "match"
    /\ speaking = "Pending"
    /\ IF voice_segment
       THEN /\ Reentry
            /\ EndIteration
            /\ UNCHANGED <<audio_buffer, stt_calls>>
            /\ UNCHANGED Handoff
       ELSE \E skew \in ClockSkews :
               IF ShouldFinalize(end, detection_start + skew)
               THEN Finalize(skew)
               ELSE /\ EndIteration
                    /\ UNCHANGED <<audio_buffer, speaking, end, stt_calls>>
                    /\ UNCHANGED Handoff
    /\ UNCHANGED <<detection, chat>>
    /\ UNCHANGED <<Instants, StreamVars, ApiTrace>>

FinishUtterance_NoClear ==
    /\ UNCHANGED audio_buffer
    /\ speaking_duration' = 0
    /\ speaking_slice' = <<>>
    /\ end' = 0
    /\ EndIteration

\* main, line 215 and the end of the iteration
FinishUtterance ==
    /\ audio_buffer' = CircularBuffer_clear(audio_buffer)
    /\ speaking_duration' = 0
    /\ speaking_slice' = <<>>
    /\ end' = 0
    /\ EndIteration

\* the process ends inside the finalization block
DieInHandoff(cause) ==
    /\ Die(cause)
    /\ UNCHANGED <<audio_buffer, end>>
    /\ UNCHANGED Handoff

\* main, lines 185-201 and handle_prompt, lines 242-249: whisper returns, the
\* prompt is matched against the wake names
PollWhisper ==
    /\ pc = "whisper"
    /\ \E ok \in BOOLEAN, is_match \in BOOLEAN :
          IF ~ok
          THEN DieInHandoff("whisper") /\ UNCHANGED chat
          ELSE IF is_match
               THEN /\ chat' = Chat_push(chat, "user")
                    /\ pc' = "complete"
                    /\ UNCHANGED <<audio_buffer, lock, end, failure>>
                    /\ UNCHANGED <<Locals, Handoff>>
               ELSE FinishUtterance /\ UNCHANGED chat
    /\ UNCHANGED <<speaking, detection, stt_calls>>
    /\ UNCHANGED <<Instants, StreamVars, ApiTrace>>

CompleteStatements_UpdateFirst ==
    <<"send", "json", "add_tokens", "push_entry", "choices", "usage">>

\* chat.rs, lines 97-115: the statements of complete in the order they run.
\* "send" (102), "json" (103), "choices" (105-109) and "usage" (110-112) can
\* return an error with ?; "add_tokens" (114) and "push_entry" (115) change
\* the session.
CompleteStatements ==
    <<"send", "json", "choices", "usage", "add_tokens", "push_entry">>

\* "ok", or the statement whose ? returns the error
CompleteOutcomes == {"ok", "send", "json", "choices", "usage"}

\* chat.rs, lines 95-118: the statements before the failing one run; "ok" is
\* a completion with `role` that reports `tokens_used` tokens.
Chat_complete(c, outcome, role, tokens_used) ==
    LET Pos(statement) ==
            CHOOSE k \in 1..Len(CompleteStatements) : CompleteStatements[k] = statement
        Ran(statement) == outcome = "ok" \/ Pos(statement) < Pos(outcome)
        counted == IF Ran("add_tokens") THEN [c EXCEPT !.tokens = @ + tokens_used] ELSE c
        pushed == IF Ran("push_entry") THEN Chat_push(counted, role) ELSE counted
    IN  [ok |-> outcome = "ok", chat |-> pushed]

\* handle_prompt, lines 250-253, and main, lines 201-213
PollComplete ==
    /\ pc = "complete"
    /\ \E outcome \in CompleteOutcomes, tokens_used \in TokensUsed, speak \in BOOLEAN :
          LET r == Chat_complete(chat, outcome, "assistant", tokens_used)
          IN  /\ chat' = r.chat
              /\ IF ~r.ok
                 THEN DieInHandoff("complete")
                 ELSE IF speak
                      THEN /\ pc' = "play_tts"
                           /\ UNCHANGED <<audio_buffer, lock, end, failure>>
                           /\ UNCHANGED <<Locals, Handoff>>
                      ELSE FinishUtterance
    /\ UNCHANGED <<speaking, detection, stt_calls>>
    /\ UNCHANGED <<Instants, StreamVars, ApiTrace>>

\* play_tts, lines 258-268, and main, line 215
PollTts ==
    /\ pc = "play_tts"
    /\ \E ok \in BOOLEAN :
          IF ok THEN FinishUtterance ELSE DieInHandoff("play_tts")
    /\ UNCHANGED <<speaking, detection, stt_calls, chat>>
    /\ UNCHANGED <<Instants, StreamVars, ApiTrace>>

Next ==
    \/ StreamCallback
    \/ StreamOverwrite
    \/ PollTick
    \/ PollVad
    \/ PollSilent
    \/ PollRustpotter
    \/ PollSpeaking
    \/ PollPending
    \/ PollWhisper
    \/ PollComplete
    \/ PollTts

Spec == Init /\ [][Next]_vars

\* ------------------------------------------------ scheduling
\* The poll task is the program's main task: the runtime resumes it after
\* each sleep and each call it makes returns, so a step of it that stays
\* possible is taken.  The capture thread holds the lock for one overwrite at
\* a time.  The wake word is detected at most MaxLiveUtterances times.
PollNext ==
    \/ PollTick
    \/ PollVad
    \/ PollSilent
    \/ PollRustpotter
    \/ PollSpeaking
    \/ PollPending
    \/ PollWhisper
    \/ PollComplete
    \/ PollTts

WakewordBudget ==
    (speaking = "Silent" /\ speaking' = "Speaking") => stt_calls < MaxLiveUtterances

LiveNext == Next /\ WakewordBudget

LiveSpec == Init /\ [][LiveNext]_vars /\ WF_vars(PollNext /\ WakewordBudget)

\* ------------------------------------------------ the capture callback alone
\* Every device configuration; the poll loop is not scheduled.
StreamInit ==
    /\ audio_buffer = CircularBuffer_new(buffer_capacity)
    /\ channel_count \in 1..MaxChannels
    /\ chunk_frames \in 1..MaxChunkFrames
    /\ InitCommon

StreamNext == StreamCallback \/ StreamOverwrite

StreamSpec == StreamInit /\ [][StreamNext]_vars

\* ================================================================ claims
\* the last n elements of s
Suffix(s, n) == SubSeq(s, Len(s) - n + 1, Len(s))

\* the least k with k / sample_rate seconds no shorter than `ms` milliseconds
CeilSamples(ms) ==
    CHOOSE k \in 0..(ms * sample_rate) :
        /\ k * 1000 >= ms * sample_rate
        /\ (k - 1) * 1000 < ms * sample_rate

\* a step of the poll task
PollStep == pc' # pc
\* the state goes to Silent and the audio is handed to STT
Finalized == speaking # "Silent" /\ speaking' = "Silent" /\ stt_calls' = stt_calls + 1
HandoffPcs == {"whisper", "complete", "play_tts"}

\* C1: a tick finalizes the utterance (the state goes to Silent, the audio
\* goes to STT) exactly when the state is Pending, the tick's VAD decision is
\* voice=false, more than 800 ms have passed since Pending was entered and
\* more than 1500 ms since the detection; Pending is entered from Speaking on
\* voice=false, with its timer started at that tick.  The ages are those at
\* the first read of the clock; the time since the detection is read second.
C1_FinalizeIff ==
    [][ /\ Finalized =>
              /\ pc = "match" /\ speaking = "Pending" /\ ~voice_segment
              /\ end > 800
              /\ \E skew \in ClockSkews : detection_start + skew > 1500
        /\ ( /\ pc = "match" /\ PollStep /\ speaking = "Pending" /\ ~voice_segment
             /\ end > 800 /\ detection_start > 1500 ) => Finalized
        /\ (speaking # "Pending" /\ speaking' = "Pending") =>
              /\ pc = "match" /\ speaking = "Speaking" /\ ~voice_segment
              /\ end' = 0
      ]_vars

\* C1, witness: an utterance finalized after 801 ms of silence
C1_Witness ==
    /\ pc = "whisper"
    /\ speaking = "Silent"
    /\ end = 801
    /\ detection_start > 1500
    /\ stt_calls = 1

\* C2: the Silent tick on which the wake-word gate reports a detection goes
\* to Speaking with speaking_start 2000 ms before its read of the clock and
\* detection_start at the next read; a
\* Silent tick without a detection changes neither the state nor the two
\* Instants, whatever the VAD decision.
C2_SilentTick ==
    [][ /\ (pc = "rustpotter" /\ PollStep) =>
              /\ speaking = "Silent"
              /\ IF detection'
                 THEN /\ speaking' = "Speaking"
                      /\ speaking_start' - 2000 \in ClockSkews
                      /\ detection_start' = 0
                 ELSE /\ speaking' = "Silent"
                      /\ speaking_start' = speaking_start
                      /\ detection_start' = detection_start
        /\ (speaking = "Silent" /\ pc \in {"vad", "match"}) =>
              /\ speaking' = "Silent"
              /\ speaking_start' = speaking_start
              /\ detection_start' = detection_start
              /\ detection' = detection
      ]_vars

\* C2, witness: the state a detection leaves
C2_Witness ==
    /\ detection
    /\ speaking = "Speaking"
    /\ speaking_start = 2000
    /\ detection_start = 0
    /\ pc = "sleep"

\* C3: a Pending tick with voice=true goes back to Speaking without a
\* handoff; Pending is only entered with a fresh timer, the timer of a
\* Pending state only grows by the time that passes in that state, and a
\* finalization needs more than 800 ms on it.
C3_Reentry ==
    [][ /\ (pc = "match" /\ PollStep /\ speaking = "Pending" /\ voice_segment) =>
              /\ speaking' = "Speaking"
              /\ stt_calls' = stt_calls
              /\ pc' = "sleep"
        /\ speaking' = "Pending" =>
              \/ speaking = "Speaking" /\ end' = 0
              \/ /\ speaking = "Pending"
                 /\ \/ end' - end = detection_start' - detection_start
                    \/ detection_start' = MaxAge
        /\ Finalized => (speaking = "Pending" /\ end > 800)
      ]_vars

\* C3, witness: the tick that re-enters Speaking, after 699 ms of silence
C3_Witness ==
    /\ pc = "match"
    /\ speaking = "Pending"
    /\ voice_segment
    /\ end = 699

\* C4: the wake-word detector is only called in state Silent, and while the
\* state is Speaking or Pending no step of a tick changes speaking_start,
\* detection_start or the last detection.
C4_WakewordOnlySilent ==
    [][ /\ pc' = "rustpotter" => speaking' = "Silent"
        /\ detection' # detection => (pc = "rustpotter" /\ speaking = "Silent")
        /\ (speaking \in {"Speaking", "Pending"} /\ pc # "sleep") =>
              /\ speaking_start' = speaking_start
              /\ detection_start' = detection_start
              /\ pc' # "rustpotter"
      ]_vars

\* C4, witness: a tick of an utterance in progress has run its match arm
C4_Witness ==
    /\ speaking = "Pending"
    /\ pc = "sleep"
    /\ end = 0
    /\ detection
    /\ detection_start > 0

\* C5: a finalization and a call of STT happen together and once; the step
\* that ends the handling leaves the buffer empty and the state Silent; no
\* Pending state outlives a tick at which both thresholds are passed, and
\* the duration requested is the time since speaking_start at its own read
\* of the clock: 5801 ms, and the skew of the clock reads more, when the utterance
\* is finalized 3801 ms after the detection.
C5_OneHandoff ==
    [][ /\ (speaking # "Silent" /\ speaking' = "Silent") <=> stt_calls' = stt_calls + 1
        /\ stt_calls' \in {stt_calls, stt_calls + 1}
        /\ (pc \in HandoffPcs /\ pc' = "sleep") =>
              /\ Len(audio_buffer'.deque.elems) = 0
              /\ speaking' = "Silent"
        /\ (speaking' = "Pending" /\ pc' = "sleep") =>
              ~(end' > 800 /\ detection_start' > 1500)
        /\ Finalized =>
              /\ speaking_duration' - speaking_start \in ClockSkews
              /\ detection_start = 3801 =>
                    speaking_duration' - 5801 \in 0..(2 * MaxSkew)
      ]_vars

\* C5, witness: the scripted run, finalized at 3801 ms after 801 ms of silence
C5_Witness ==
    /\ pc = "whisper"
    /\ detection_start = 3801
    /\ end = 801
    /\ speaking_duration = 5801
    /\ stt_calls = 1

\* C6: the slice handed to STT is the last min(len, n) samples of the
\* buffer, oldest first, n the ceiling of the duration times the sample rate;
\* the process is alive.
C6_Window ==
    pc = "whisper" =>
        /\ speaking_slice =
              Suffix(audio_buffer.deque.elems,
                     Min(Len(audio_buffer.deque.elems), CeilSamples(speaking_duration)))
        /\ failure = "none"

\* C6, witness: more samples requested than a full buffer holds
C6_Witness ==
    /\ pc = "whisper"
    /\ Len(audio_buffer.deque.elems) = buffer_capacity
    /\ CeilSamples(speaking_duration) > buffer_capacity
    /\ speaking_slice = audio_buffer.deque.elems

\* C7 as claimed: the poll task does not hold the lock on the buffer while a
\* VAD, wake-word, STT, chat or TTS call is in progress.
C7_LockScoped ==
    pc \in {"vad", "rustpotter", "whisper", "complete", "play_tts"} => lock # "poll"

\* C8 as claimed: while the poll task is inside the handoff, an overwrite
\* the capture callback attempts can complete.
C8_CaptureNotBlocked ==
    (pc \in HandoffPcs /\ stream_data # <<>>) => ENABLED StreamOverwrite

\* C9 as claimed: after a failure of STT or of the chat completion the
\* buffer is cleared, the state is Silent and the loop is still running.
C9_FailureLocal ==
    failure \in {"whisper", "complete"} =>
        /\ Len(audio_buffer.deque.elems) = 0
        /\ speaking = "Silent"
        /\ pc # "dead"

\* C10 as claimed: for every capacity new accepts and every sequence of
\* calls, the length of the buffer is at most the capacity.
C10_LenAtMostCap == Len(audio_buffer.deque.elems) <= audio_buffer.cap

\* C11: from an empty buffer of capacity C >= 1, after any n calls of
\* overwrite the content, oldest first, is the last min(n, C) elements passed
\* in, in the order they were passed; no call returns an error.
C11_OverwriteFifo ==
    /\ audio_buffer.deque.elems =
          Suffix(written, Min(Len(written), audio_buffer.cap))
    /\ api_result.result \in {"none", "unit"}

\* C11, witness: two more calls than the capacity, the first element passed
\* in evicted and different from the one that took its place
C11_Witness ==
    /\ audio_buffer.cap >= 2
    /\ Len(written) = audio_buffer.cap + 2
    /\ written[1] # written[audio_buffer.cap + 1]
    /\ audio_buffer.deque.elems[1] = written[3]
    /\ api_result.call = "overwrite"

\* C12: whenever the buffer passes the tick guard, for both frame lengths
\* and however as_slices splits the content, the frame extracted has the
\* frame's length and is the last samples of the first slice followed by the
\* second, without a panic of copy_from_slice; the frames the poll loop hands
\* to the VAD and to the wake-word detector are those.
C12_FrameAcrossSplit ==
    /\ failure # "copy_from_slice"
    /\ pc = "vad" => vad_buffer = Suffix(audio_buffer.deque.elems, vad_frame_length)
    /\ pc = "rustpotter" =>
          rustpotter_buffer = Suffix(audio_buffer.deque.elems, rustpotter_frame_length)
    /\ TickGuard(audio_buffer) =>
          \A frame_length \in {vad_frame_length, rustpotter_frame_length} :
              LET slices == CircularBuffer_as_slices(audio_buffer)
                  f == ExtractFrame(frame_length, slices)
              IN  /\ ~f.panic
                  /\ Len(f.frame) = frame_length
                  /\ f.frame = Suffix(slices[1] \o slices[2], frame_length)

\* C12, witness: the wake-word frame spans the split, the second slice
\* shorter than the frame
C12_Witness ==
    LET slices == CircularBuffer_as_slices(audio_buffer)
    IN  /\ pc = "rustpotter"
        /\ Len(slices[2]) > 0
        /\ Len(slices[2]) < rustpotter_frame_length
        /\ Len(slices[1]) > rustpotter_frame_length
        /\ rustpotter_buffer[rustpotter_frame_length] = slices[2][Len(slices[2])]
        /\ rustpotter_buffer[1] # slices[1][1]

\* a tick of the poll loop: the only step from the sleep that ages an Instant
TickStep == pc = "sleep" /\ speaking_start' # speaking_start

\* s at the end of a frame of frame_length, zeros before it
ZeroPadded(s, frame_length) ==
    [i \in 1..frame_length |->
        IF i <= frame_length - Len(s) THEN 0 ELSE s[i - (frame_length - Len(s))]]

\* C13 as claimed: a tick that finds fewer samples than the VAD frame length
\* in the buffer still classifies a frame: the buffered samples at its end,
\* zeros before them.
C13_ShortBufferClassified ==
    [][ (TickStep /\ Len(audio_buffer.deque.elems) < vad_frame_length) =>
            /\ pc' = "vad"
            /\ vad_buffer' = ZeroPadded(audio_buffer.deque.elems, vad_frame_length)
      ]_vars

\* C14: the state leaves Speaking or Pending for Silent only on the step
\* that finalizes, which calls STT on a slice of the buffer; an utterance
\* starts only on a detection; the buffer only loses samples on the step that
\* ends a handoff; the process does not end in the middle of an utterance.
C14_NoCancellation ==
    [][ /\ (speaking \in {"Speaking", "Pending"} /\ speaking' = "Silent") =>
              /\ pc = "match" /\ pc' = "whisper"
              /\ stt_calls' = stt_calls + 1
              /\ speaking_slice' =
                    Suffix(audio_buffer'.deque.elems, Len(speaking_slice'))
              /\ speaking_slice' # <<>>
        /\ (speaking = "Silent" /\ speaking' # "Silent") =>
              /\ speaking' = "Speaking"
              /\ pc = "rustpotter" /\ detection'
        /\ Len(audio_buffer'.deque.elems) < Len(audio_buffer.deque.elems) =>
              /\ pc \in HandoffPcs /\ pc' = "sleep"
              /\ speaking = "Silent"
        /\ speaking \in {"Speaking", "Pending"} => pc' # "dead"
      ]_vars

\* C14, witness: an utterance longer than the buffer holds, handed off with
\* the whole buffer
C14_Witness ==
    /\ pc = "whisper"
    /\ detection_start = MaxAge
    /\ end = 801
    /\ speaking_slice = audio_buffer.deque.elems
    /\ Len(speaking_slice) = buffer_capacity

\* C15: a write on a buffer whose length is its capacity returns Full and
\* changes nothing; a write on a buffer below its capacity returns Ok and
\* appends the element at the newest end; after any write the old content is
\* still there, oldest first.
C15_WriteFull ==
    [][ api_result'.call = "write" =>
            /\ Len(audio_buffer.deque.elems) = audio_buffer.cap =>
                  /\ api_result'.result = "Full"
                  /\ audio_buffer' = audio_buffer
            /\ Len(audio_buffer.deque.elems) < audio_buffer.cap =>
                  /\ api_result'.result = "Ok"
                  /\ audio_buffer'.deque.elems =
                        Append(audio_buffer.deque.elems, api_result'.value)
                  /\ audio_buffer'.cap = audio_buffer.cap
            /\ Len(audio_buffer'.deque.elems) >= Len(audio_buffer.deque.elems)
            /\ SubSeq(audio_buffer'.deque.elems, 1, Len(audio_buffer.deque.elems)) =
                  audio_buffer.deque.elems
      ]_vars

\* C15, witness: a write refused on a full buffer whose ring has wrapped
C15_Witness ==
    /\ api_result.call = "write"
    /\ api_result.result = "Full"
    /\ audio_buffer.cap >= 2
    /\ Len(audio_buffer.deque.elems) = audio_buffer.cap
    /\ audio_buffer.deque.head > 0

\* C16: on every device, a callback starts at index 0 of its chunk, whose
\* length is a multiple of channel_count; each step of it overwrites with the
\* sample at an index that is a multiple of channel_count and goes on to the
\* next such index, or ends after the last; no sample of another channel is
\* in the buffer.
C16_FirstChannelOnly ==
    [][ /\ stream_data = <<>> =>
              /\ stream_i' = 0
              /\ Len(stream_data') % channel_count = 0
              /\ audio_buffer' = audio_buffer
        /\ stream_data # <<>> =>
              /\ stream_i % channel_count = 0
              /\ LET appended == Append(audio_buffer.deque.elems, stream_data[stream_i + 1])
                 IN  audio_buffer'.deque.elems =
                        Suffix(appended, Min(Len(appended), buffer_capacity))
              /\ IF stream_i + channel_count < Len(stream_data)
                 THEN stream_i' = stream_i + channel_count /\ stream_data' = stream_data
                 ELSE stream_data' = <<>>
        /\ \A k \in 1..Len(audio_buffer'.deque.elems) : audio_buffer'.deque.elems[k] > 0
      ]_vars

\* C16, witness: a stereo callback of two frames has written its first
\* frame and stands at index 2
C16_Witness ==
    /\ channel_count = 2
    /\ Len(stream_data) = 4
    /\ stream_i = 2
    /\ stream_data[2] < 0
    /\ Len(audio_buffer.deque.elems) = buffer_capacity
    /\ audio_buffer.deque.elems[buffer_capacity] = stream_data[1]

\* C17: while the state is Speaking or Pending the buffer is longer than the
\* VAD frame and longer than the wake-word frame, and a tick that the guard
\* skips finds the state Silent.
C17_GuardOnlySkipsSilent ==
    [][ /\ speaking' \in {"Speaking", "Pending"} =>
              /\ Len(audio_buffer'.deque.elems) > vad_frame_length
              /\ Len(audio_buffer'.deque.elems) > rustpotter_frame_length
        /\ (TickStep /\ pc' = "sleep") => speaking = "Silent"
      ]_vars

\* C17, witness: the second utterance, after the buffer was cleared, in
\* progress on the shortest buffer that passes the guard
C17_Witness ==
    /\ speaking = "Pending"
    /\ pc = "sleep"
    /\ stt_calls = 1
    /\ Len(audio_buffer.deque.elems) = rustpotter_frame_length + 1

\* C18 as claimed: every duration is non-negative, speaking_start is
\* exactly 2000 ms before detection_start while the state is Speaking or
\* Pending, and the duration requested at a finalization is more than 3500 ms.
C18_ExactOffset ==
    /\ speaking_start >= 0 /\ detection_start >= 0 /\ end >= 0
    /\ speaking_duration >= 0
    /\ speaking \in {"Speaking", "Pending"} =>
          speaking_start = detection_start + 2000
    /\ pc = "whisper" => speaking_duration > 3500

\* C18, amended: every duration is non-negative; while the state is Speaking
\* or Pending speaking_start is 2000 ms before detection_start or earlier, by
\* the time between the clock reads of lines 155 and 156; the duration
\* requested at a finalization is more than 3500 ms.
C18_OffsetAtLeast ==
    /\ speaking_start >= 0 /\ detection_start >= 0 /\ end >= 0
    /\ speaking_duration >= 0
    /\ speaking \in {"Speaking", "Pending"} =>
          speaking_start - (detection_start + 2000) \in ClockSkews
    /\ pc = "whisper" => speaking_duration > 3500

\* C18, witness: a finalization at the minimum, the clock having moved
\* between the two reads of the detection and between those of line 168
C18_Witness ==
    /\ pc = "whisper"
    /\ detection_start = 1500
    /\ speaking_start = 3501
    /\ speaking_duration = 3502

\* C19: if from some tick on every VAD decision is voice=false, the state
\* is Silent again and again: an utterance in progress is finalized.  The
\* state reaches Silent by one call of STT, on the first tick of the Pending
\* arm that finds both thresholds passed.
C19_EventuallySilent ==
    /\ <>[](pc = "match" => ~voice_segment) => []<>(speaking = "Silent")
    /\ [][ /\ (speaking # "Silent" /\ speaking' = "Silent") =>
                 stt_calls' = stt_calls + 1
           /\ ( /\ pc = "match" /\ PollStep /\ speaking = "Pending"
                /\ ~voice_segment
                /\ end > 800 /\ detection_start > 1500 ) => speaking' = "Silent"
         ]_vars

\* C19, witness: an utterance finalized on the third silent tick, the second
\* having found only 699 ms of silence
C19_Witness ==
    /\ pc = "whisper"
    /\ ~voice_segment
    /\ end = 1398
    /\ speaking = "Silent"
    /\ stt_calls = 1

\* C20: a completion that fails, at whichever statement, leaves the message
\* list and the token counter as they were, and inside handle_prompt the
\* list then ends with the user turn just pushed; a completion that succeeds
\* appends one entry at the end and adds the reported total to the counter.
C20_CompleteAllOrNothing ==
    [][ (pc = "complete" /\ PollStep) =>
            /\ \A outcome \in CompleteOutcomes \ {"ok"}, tokens_used \in TokensUsed :
                  LET r == Chat_complete(chat, outcome, "assistant", tokens_used)
                  IN  ~r.ok /\ r.chat = chat
            /\ pc' = "dead" =>
                  /\ failure' = "complete"
                  /\ chat' = chat
                  /\ chat'.messages[Len(chat'.messages)] = "user"
            /\ pc' # "dead" =>
                  /\ chat'.messages = Append(chat.messages, "assistant")
                  /\ chat'.tokens - chat.tokens \in TokensUsed
      ]_vars

\* C20, witness: the second completion failed, after the first had added
\* its entry and its tokens
C20_Witness ==
    /\ failure = "complete"
    /\ chat.tokens = 2
    /\ Len(chat.messages) = 7
    /\ chat.messages[6] = "assistant"
    /\ chat.messages[7] = "user"

====
